---- MODULE Spec2Model ----
(***************************************************************************)
(* Model of data/script/data_preprocessing.py: the EconomicDataPreprocessor *)
(* pipeline (load, date cleaning, numeric cleaning, imputation, validation, *)
(* derived variables, summary, export) and the driver loop of main().       *)
(*                                                                         *)
(* A table (DataFrame) is a record                                         *)
(*     [cols, dtype, index, rows]                                          *)
(* cols  : the column names in column order,                               *)
(* dtype : column name -> "object" | "number" | "datetime",                *)
(* index : the row labels, in row order,                                   *)
(* rows  : the rows in row order, each a function column name -> cell.     *)
(* A numeric cell is [k, n, d]: k = "num" (the float n/d, d > 0, lowest    *)
(* terms), "nan" (missing), "inf" (n = 1 or -1), "str" (text holding the   *)
(* numeral n/d) or "junk" (text that is no numeral).  Floats are modelled  *)
(* as exact rationals.  A date cell is [k, y, m, d]: k = "dstr" (text      *)
(* y-m-d), "junk", "nan", "date" (a timestamp) or "nat" (missing).         *)
(***************************************************************************)
EXTENDS Integers, Sequences, FiniteSets, TLC

(* ------------------------------ bounds -------------------------------- *)
\* rows of the tables that exercise the date column
MaxDateRows == 3
\* rows of the tables that exercise gaps in a numeric column
MaxGapRows == 5
\* rows of the tables that exercise the economic identities
MaxIdentRows == 2
\* rows of the long single-deviation tables (above 12, so that the
\* year-over-year branch and the 3-sigma outlier test are reached)
LongRows == 13

(* ----------------------------- rationals ------------------------------ *)
Abs(x) == IF x < 0 THEN -x ELSE x

RECURSIVE GCD(_, _)
GCD(a, b) == IF b = 0 THEN a ELSE GCD(b, a % b)

NaN == [k |-> "nan", n |-> 0, d |-> 1]

Inf(s) == [k |-> "inf", n |-> s, d |-> 1]

\* the float n/d, d # 0, in lowest terms with a positive denominator
Num(n, d) ==
    LET g == GCD(Abs(n), Abs(d))
        s == IF d < 0 THEN -1 ELSE 1
    IN  [k |-> "num", n |-> (s * n) \div g, d |-> (s * d) \div g]

Int2Num(i) == [k |-> "num", n |-> i, d |-> 1]

IsNa(c) == c.k \in {"nan", "nat"}

Sign(c) == IF c.n > 0 THEN 1 ELSE IF c.n < 0 THEN -1 ELSE 0

\* IEEE arithmetic on float cells: NaN propagates, x/0 is +-inf or NaN;
\* common factors are cancelled before multiplying
FNeg(a) ==
    IF a.k = "nan" THEN NaN
    ELSE IF a.k = "inf" THEN Inf(-a.n)
    ELSE Num(-a.n, a.d)

FAdd(a, b) ==
    IF a.k = "nan" \/ b.k = "nan" THEN NaN
    ELSE IF a.k = "inf" /\ b.k = "inf" THEN (IF a.n = b.n THEN a ELSE NaN)
    ELSE IF a.k = "inf" THEN a
    ELSE IF b.k = "inf" THEN b
    ELSE LET g == GCD(a.d, b.d)
         IN  Num(a.n * (b.d \div g) + b.n * (a.d \div g), (a.d \div g) * b.d)

FSub(a, b) == FAdd(a, FNeg(b))

FMul(a, b) ==
    IF a.k = "nan" \/ b.k = "nan" THEN NaN
    ELSE IF a.k = "inf" \/ b.k = "inf"
         THEN (IF Sign(a) * Sign(b) = 0 THEN NaN ELSE Inf(Sign(a) * Sign(b)))
    ELSE LET g1 == GCD(Abs(a.n), b.d)
             g2 == GCD(Abs(b.n), a.d)
         IN  Num((a.n \div g1) * (b.n \div g2), (a.d \div g2) * (b.d \div g1))

FDiv(a, b) ==
    IF a.k = "nan" \/ b.k = "nan" THEN NaN
    ELSE IF a.k = "inf" /\ b.k = "inf" THEN NaN
    ELSE IF a.k = "inf" THEN Inf(IF b.n < 0 THEN -a.n ELSE a.n)
    ELSE IF b.k = "inf" THEN Int2Num(0)
    ELSE IF b.n = 0 THEN (IF a.n = 0 THEN NaN ELSE Inf(Sign(a)))
    ELSE LET g1 == GCD(Abs(a.n), Abs(b.n))
             g2 == GCD(a.d, b.d)
         IN  Num((a.n \div g1) * (b.d \div g2), (a.d \div g2) * (b.n \div g1))

FAbs(a) ==
    IF a.k = "nan" THEN NaN
    ELSE IF a.k = "inf" THEN Inf(1)
    ELSE Num(Abs(a.n), a.d)

\* a > b on floats; any comparison with NaN is False
FGt(a, b) ==
    IF a.k = "nan" \/ b.k = "nan" THEN FALSE
    ELSE IF a.k = "inf" /\ b.k = "inf" THEN a.n > b.n
    ELSE IF a.k = "inf" THEN a.n > 0
    ELSE IF b.k = "inf" THEN b.n < 0
    ELSE a.n * b.d > b.n * a.d

FLt(a, b) == FGt(b, a)

(* --------------------------- sequence helpers -------------------------- *)
Range(s) == {s[i] : i \in 1..Len(s)}

RECURSIVE SeqsUpTo(_, _)
\* the sequences over S of length at most n
SeqsUpTo(S, n) ==
    IF n = 0 THEN {<<>>}
    ELSE LET T == SeqsUpTo(S, n - 1)
         IN  T \cup {Append(t, x) : t \in {u \in T : Len(u) = n - 1}, x \in S}

\* the column c of a table, as a sequence of cells in row order
Col(df, c) == [i \in 1..Len(df.rows) |-> df.rows[i][c]]

HasCol(df, c) == c \in Range(df.cols)

\* df[c] = values: replaces or appends the column c
SetCol(df, c, values, dt) ==
    [cols  |-> IF HasCol(df, c) THEN df.cols ELSE Append(df.cols, c),
     dtype |-> [x \in Range(df.cols) \cup {c} |-> IF x = c THEN dt ELSE df.dtype[x]],
     index |-> df.index,
     rows  |-> [i \in 1..Len(df.rows) |->
                  [x \in Range(df.cols) \cup {c} |->
                      IF x = c THEN values[i] ELSE df.rows[i][x]]]]

(* ------------------------------- dates -------------------------------- *)
NaT == [k |-> "nat", y |-> 0, m |-> 0, d |-> 0]

Timestamp(y, m, d) == [k |-> "date", y |-> y, m |-> m, d |-> d]

IsLeap(y) == (y % 4 = 0 /\ y % 100 # 0) \/ y % 400 = 0

DaysInMonth(y, m) ==
    IF m = 2 THEN (IF IsLeap(y) THEN 29 ELSE 28)
    ELSE IF m \in {4, 6, 9, 11} THEN 30 ELSE 31

\* a <= b on timestamps
DateLe(a, b) ==
    \/ a.y < b.y
    \/ a.y = b.y /\ a.m < b.m
    \/ a.y = b.y /\ a.m = b.m /\ a.d <= b.d

\* pd.to_datetime(x, errors='coerce') on one cell: a timestamp, or NaT for
\* text that is no calendar date and for an empty cell
to_datetime(c) ==
    IF c.k = "date" THEN c
    ELSE IF c.k = "dstr" /\ c.m \in 1..12 /\ c.d \in 1..DaysInMonth(c.y, c.m)
         THEN Timestamp(c.y, c.m, c.d)
    ELSE NaT

\* pd.date_range(start='2020-01-01', periods=n, freq='M'): 'M' is the
\* month-end frequency, so the i-th stamp (from 0) is the last day of the
\* i-th month counted from January 2020
date_range(n) ==
    [i \in 1..n |->
        LET y == 2020 + ((i - 1) \div 12)
            m == ((i - 1) % 12) + 1
        IN  Timestamp(y, m, DaysInMonth(y, m))]

RangeIndex(n) == [i \in 1..n |-> i - 1]

\* the rows at positions p, in that order, with their labels
Take(df, p) ==
    [cols  |-> df.cols,
     dtype |-> df.dtype,
     index |-> [i \in 1..Len(p) |-> df.index[p[i]]],
     rows  |-> [i \in 1..Len(p) |-> df.rows[p[i]]]]

RECURSIVE KeepPositions(_, _, _)
\* the positions i..Len(s) of s whose cell is not missing, ascending
KeepPositions(s, i, acc) ==
    IF i > Len(s) THEN acc
    ELSE KeepPositions(s, i + 1, IF IsNa(s[i]) THEN acc ELSE Append(acc, i))

\* df.dropna(subset=[c])
dropna(df, c) == Take(df, KeepPositions(Col(df, c), 1, <<>>))

RECURSIVE SortOrders(_, _)
\* the orders in which the positions of rest can be listed with ascending
\* dates; sort_values uses quicksort, which promises no order among ties
SortOrders(dates, rest) ==
    IF rest = {} THEN {<<>>}
    ELSE LET mins == {i \in rest : \A j \in rest : DateLe(dates[i], dates[j])}
         IN  UNION {{<<i>> \o t : t \in SortOrders(dates, rest \ {i})} : i \in mins}

\* sort_values without the sort
sort_values_Unsorted(df) == {df}

\* df.sort_values('Date'): the possible results
sort_values(df) ==
    {Take(df, p) : p \in SortOrders(Col(df, "Date"), 1..Len(df.rows))}

reset_index(df) == [df EXCEPT !.index = RangeIndex(Len(df.rows))]

\* the table clean_date_column sorts: dummy dates when there is no Date
\* column, otherwise parsed dates with the unparseable rows dropped
DatedTable(df) ==
    IF ~HasCol(df, "Date")
    THEN SetCol(df, "Date", date_range(Len(df.rows)), "datetime")
    ELSE LET parsed == SetCol(df, "Date",
                              [i \in 1..Len(df.rows) |-> to_datetime(df.rows[i]["Date"])],
                              "datetime")
             invalid_dates == Cardinality({i \in 1..Len(df.rows) : IsNa(parsed.rows[i]["Date"])})
         IN  IF invalid_dates > 0 THEN dropna(parsed, "Date") ELSE parsed

\* the possible return values of clean_date_column(df)
clean_date_column(df) == {reset_index(t) : t \in sort_values(DatedTable(df))}

(* -------------------------- numeric cleaning -------------------------- *)
\* self.expected_columns without 'Date', in dictionary order
numeric_columns ==
    <<"Inflation_Rate", "GDP", "Consumption", "Investment", "Government_Spending",
      "Net_Exports", "Government_Revenue", "Expenditure", "Fiscal_Deficit">>

\* pd.to_numeric(x, errors='coerce') on one cell: a number stays, text
\* holding a numeral becomes that number, any other text becomes NaN
to_numeric(c) ==
    IF c.k \in {"num", "inf"} THEN c
    ELSE IF c.k = "str" THEN Num(c.n, c.d)
    ELSE NaN

\* the gaps of the column s: the positions that are missing
Gaps(s) == {i \in 1..Len(s) : IsNa(s[i])}

\* the non-missing cells of s, in order
Valid(s) == SelectSeq(s, LAMBDA c : ~IsNa(c))

RECURSIVE FSum(_)
FSum(s) == IF s = <<>> THEN Int2Num(0) ELSE FAdd(s[1], FSum(Tail(s)))

\* mean() that does not skip missing cells (skipna=False)
mean_NoSkip(s) ==
    IF Gaps(s) # {} THEN NaN ELSE FDiv(FSum(s), Int2Num(Len(s)))

\* Series.mean(): over the non-missing cells, NaN when there is none
mean(s) == FDiv(FSum(Valid(s)), Int2Num(Len(Valid(s))))

\* the square of Series.std(): sample variance (ddof = 1) of the non-missing
\* cells, NaN when there are fewer than two
variance(s) ==
    LET v  == Valid(s)
        mu == mean(s)
        sq == [i \in 1..Len(v) |-> FMul(FSub(v[i], mu), FSub(v[i], mu))]
    IN  FDiv(FSum(sq), Int2Num(Len(v) - 1))

\* np.abs(s - mean) > 3 * std, as a set of positions; both sides are
\* non-negative, so the squares are compared
outliers(s) ==
    LET mu == mean(s)
        v9 == FMul(Int2Num(9), variance(s))
    IN  {i \in 1..Len(s) : FGt(FMul(FSub(s[i], mu), FSub(s[i], mu)), v9)}

CountNa(s) == Cardinality({i \in 1..Len(s) : IsNa(s[i])})

\* CleanOne with line 112 enabled: flagged outliers are set to NaN
CleanOne_DropOutliers(st, col) ==
    IF ~HasCol(st.df, col) THEN st
    ELSE LET coerced == [i \in 1..Len(st.df.rows) |-> to_numeric(st.df.rows[i][col])]
             flagged == IF CountNa(coerced) < Len(coerced) THEN outliers(coerced) ELSE {}
             capped  == [i \in 1..Len(coerced) |-> IF i \in flagged THEN NaN ELSE coerced[i]]
         IN  [df  |-> SetCol(st.df, col, capped, "number"),
              log |-> IF flagged # {}
                      THEN Append(st.log, [level |-> "warning", msg |-> "potential outliers detected",
                                           col |-> col, n |-> Cardinality(flagged)])
                      ELSE st.log]

\* one iteration of the loop of clean_numeric_columns, on [df, log]
CleanOne(st, col) ==
    IF ~HasCol(st.df, col)
    THEN [st EXCEPT !.log = Append(@, [level |-> "warning", msg |-> "column not found",
                                       col |-> col, n |-> 0])]
    ELSE LET coerced == [i \in 1..Len(st.df.rows) |-> to_numeric(st.df.rows[i][col])]
             df1 == SetCol(st.df, col, coerced, "number")
             missing_count == CountNa(coerced)
             log1 == IF missing_count > 0
                     THEN Append(st.log, [level |-> "info", msg |-> "missing values detected",
                                          col |-> col, n |-> missing_count])
                     ELSE st.log
             outlier_count == IF missing_count < Len(coerced)
                              THEN Cardinality(outliers(coerced)) ELSE 0
             log2 == IF outlier_count > 0
                     THEN Append(log1, [level |-> "warning", msg |-> "potential outliers detected",
                                        col |-> col, n |-> outlier_count])
                     ELSE log1
         IN  [df |-> df1, log |-> log2]

RECURSIVE CleanLoop(_, _)
CleanLoop(st, colseq) ==
    IF colseq = <<>> THEN st ELSE CleanLoop(CleanOne(st, Head(colseq)), Tail(colseq))

\* clean_numeric_columns(df): the returned table and the messages logged
clean_numeric_columns(df) == CleanLoop([df |-> df, log |-> <<>>], numeric_columns)

(* ----------------------------- imputation ----------------------------- *)
\* the greatest position below i holding a value, 0 when there is none
PrevValid(s, i) ==
    LET P == {j \in 1..(i - 1) : ~IsNa(s[j])}
    IN  IF P = {} THEN 0 ELSE CHOOSE j \in P : \A x \in P : x <= j

\* the least position above i holding a value, 0 when there is none
NextValid(s, i) ==
    LET P == {j \in (i + 1)..Len(s) : ~IsNa(s[j])}
    IN  IF P = {} THEN 0 ELSE CHOOSE j \in P : \A x \in P : j <= x

\* interpolate that gives every cell of a gap the mean of the two neighbours
interpolate_Midpoint(s) ==
    [i \in 1..Len(s) |->
        IF ~IsNa(s[i]) THEN s[i]
        ELSE LET p == PrevValid(s, i)
                 q == NextValid(s, i)
             IN  IF p = 0 THEN NaN
                 ELSE IF q = 0 THEN s[p]
                 ELSE FDiv(FAdd(s[p], s[q]), Int2Num(2))]

\* Series.interpolate(method='linear'): equally spaced by position, filling
\* forward only (limit_direction='forward', no limit_area): a gap before the
\* first value stays, a gap after the last value takes the last value
interpolate(s) ==
    [i \in 1..Len(s) |->
        IF ~IsNa(s[i]) THEN s[i]
        ELSE LET p == PrevValid(s, i)
                 q == NextValid(s, i)
             IN  IF p = 0 THEN NaN
                 ELSE IF q = 0 THEN s[p]
                 ELSE FAdd(s[p], FDiv(FMul(FSub(s[q], s[p]), Int2Num(i - p)),
                                      Int2Num(q - p)))]

\* Series.fillna(method='ffill')
ffill(s) ==
    [i \in 1..Len(s) |->
        IF ~IsNa(s[i]) \/ PrevValid(s, i) = 0 THEN s[i] ELSE s[PrevValid(s, i)]]

\* Series.fillna(method='bfill')
bfill(s) ==
    [i \in 1..Len(s) |->
        IF ~IsNa(s[i]) \/ NextValid(s, i) = 0 THEN s[i] ELSE s[NextValid(s, i)]]

\* Series.fillna(v): a NaN fill value fills nothing
fillna(s, v) == [i \in 1..Len(s) |-> IF IsNa(s[i]) THEN v ELSE s[i]]

RECURSIVE SortAsc(_)
\* the cells of s in ascending order
SortAsc(s) ==
    IF s = <<>> THEN <<>>
    ELSE LET i == CHOOSE i \in 1..Len(s) : \A j \in 1..Len(s) : ~FGt(s[i], s[j])
         IN  <<s[i]>> \o SortAsc([j \in 1..(Len(s) - 1) |-> IF j < i THEN s[j] ELSE s[j + 1]])

\* Series.median(): over the non-missing cells, NaN when there is none
median(s) ==
    LET v == SortAsc(Valid(s))
        n == Len(v)
    IN  IF n = 0 THEN NaN
        ELSE IF n % 2 = 1 THEN v[(n + 1) \div 2]
        ELSE FDiv(FAdd(v[n \div 2], v[(n \div 2) + 1]), Int2Num(2))

\* the strategy applied to one numeric column (lines 124-137)
Impute(s, method) ==
    IF method = "interpolate" THEN interpolate(s)
    ELSE IF method = "forward_fill" THEN ffill(s)
    ELSE IF method = "backward_fill" THEN bfill(s)
    ELSE IF method = "mean" THEN fillna(s, mean(s))
    ELSE IF method = "median" THEN fillna(s, median(s))
    ELSE interpolate(s)

KnownMethods == {"interpolate", "forward_fill", "backward_fill", "mean", "median"}

\* df.select_dtypes(include=[np.number]).columns, as a set
NumericCols(df) == {c \in Range(df.cols) : df.dtype[c] = "number"}

\* handle_missing_values that drops the rows with a gap instead of filling
handle_missing_values_DropRows(df, method) ==
    Take(df, SelectSeq([i \in 1..Len(df.rows) |-> i],
                       LAMBDA i : \A c \in NumericCols(df) : ~IsNa(df.rows[i][c])))

\* handle_missing_values(df, method): every numeric column is imputed
handle_missing_values(df, method) ==
    [df EXCEPT !.rows =
        [i \in 1..Len(df.rows) |->
            [c \in Range(df.cols) |->
                IF c \in NumericCols(df) THEN Impute(Col(df, c), method)[i]
                ELSE df.rows[i][c]]]]

(* ----------------------------- validation ----------------------------- *)
HasAll(df, colset) == colset \subseteq Range(df.cols)

\* the rows of df whose GDP differs from the components by 5% or more
AtOrOverTolerance(df) ==
    {i \in 1..Len(df.rows) :
        LET r == df.rows[i]
            gdp_components_sum ==
                FAdd(FAdd(FAdd(r["Consumption"], r["Investment"]),
                          r["Government_Spending"]), r["Net_Exports"])
            gdp_diff == FAbs(FSub(r["GDP"], gdp_components_sum))
            tolerance == FMul(Num(5, 100), FAbs(r["GDP"]))
        IN  FGt(gdp_diff, tolerance) \/ (gdp_diff.k = "num" /\ gdp_diff = tolerance)}

\* CheckGDP with >= for >
CheckGDP_Inclusive(st) ==
    IF ~HasAll(st.df, {"GDP", "Consumption", "Investment", "Government_Spending", "Net_Exports"})
       \/ AtOrOverTolerance(st.df) = {}
    THEN st
    ELSE [st EXCEPT !.issues = Append(@, [kind |-> "gdp_identity", col |-> "GDP",
                                          count |-> Cardinality(AtOrOverTolerance(st.df))])]

\* lines 147-159 on [df, issues]: the GDP identity, 5% tolerance
CheckGDP(st) ==
    LET df == st.df
    IN  IF ~HasAll(df, {"GDP", "Consumption", "Investment", "Government_Spending", "Net_Exports"})
        THEN st
        ELSE LET inconsistent_rows ==
                     {i \in 1..Len(df.rows) :
                        LET r == df.rows[i]
                            gdp_components_sum ==
                                FAdd(FAdd(FAdd(r["Consumption"], r["Investment"]),
                                          r["Government_Spending"]), r["Net_Exports"])
                            gdp_diff == FAbs(FSub(r["GDP"], gdp_components_sum))
                            tolerance == FMul(Num(5, 100), FAbs(r["GDP"]))
                        IN  FGt(gdp_diff, tolerance)}
             IN  IF inconsistent_rows # {}
                 THEN [st EXCEPT !.issues = Append(@, [kind |-> "gdp_identity", col |-> "GDP",
                                                       count |-> Cardinality(inconsistent_rows)])]
                 ELSE st

\* CheckDeficit that also writes the calculated deficit into the table
CheckDeficit_Correcting(st) ==
    IF ~HasAll(st.df, {"Fiscal_Deficit", "Government_Revenue", "Expenditure"})
    THEN st
    ELSE LET calculated == [i \in 1..Len(st.df.rows) |->
                               FSub(st.df.rows[i]["Expenditure"],
                                    st.df.rows[i]["Government_Revenue"])]
             off == {i \in 1..Len(st.df.rows) :
                        FGt(FAbs(FSub(st.df.rows[i]["Fiscal_Deficit"], calculated[i])),
                            FMul(Num(1, 100), FAbs(st.df.rows[i]["Expenditure"])))}
         IN  [df     |-> SetCol(st.df, "Expenditure",
                                [i \in 1..Len(st.df.rows) |->
                                    FAdd(st.df.rows[i]["Fiscal_Deficit"],
                                         st.df.rows[i]["Government_Revenue"])], "number"),
              issues |-> IF off # {}
                         THEN Append(st.issues, [kind |-> "fiscal_deficit",
                                                 col |-> "Fiscal_Deficit",
                                                 count |-> Cardinality(off)])
                         ELSE st.issues]

\* lines 161-172 on [df, issues]: the fiscal deficit identity, 1% tolerance
CheckDeficit(st) ==
    LET df == st.df
    IN  IF ~HasAll(df, {"Fiscal_Deficit", "Government_Revenue", "Expenditure"})
        THEN st
        ELSE LET inconsistent_deficit ==
                     {i \in 1..Len(df.rows) :
                        LET r == df.rows[i]
                            calculated_deficit == FSub(r["Expenditure"], r["Government_Revenue"])
                            deficit_diff == FAbs(FSub(r["Fiscal_Deficit"], calculated_deficit))
                            tolerance == FMul(Num(1, 100), FAbs(r["Expenditure"]))
                        IN  FGt(deficit_diff, tolerance)}
             IN  IF inconsistent_deficit # {}
                 THEN [st EXCEPT !.issues = Append(@, [kind |-> "fiscal_deficit",
                                                       col |-> "Fiscal_Deficit",
                                                       count |-> Cardinality(inconsistent_deficit)])]
                 ELSE st

positive_columns ==
    <<"GDP", "Consumption", "Investment", "Government_Spending",
      "Government_Revenue", "Expenditure">>

RECURSIVE SignLoop(_, _)
\* the loop of lines 178-182 over the columns colseq
SignLoop(st, colseq) ==
    IF colseq = <<>> THEN st
    ELSE LET col == Head(colseq)
             negative_values ==
                 IF HasCol(st.df, col)
                 THEN Cardinality({i \in 1..Len(st.df.rows) :
                                     FLt(st.df.rows[i][col], Int2Num(0))})
                 ELSE 0
             st1 == IF negative_values > 0
                    THEN [st EXCEPT !.issues = Append(@, [kind |-> "negative", col |-> col,
                                                          count |-> negative_values])]
                    ELSE st
         IN  SignLoop(st1, Tail(colseq))

\* lines 174-182 on [df, issues]: the sign constraints
CheckSigns(st) == SignLoop(st, positive_columns)

\* one of the three checks, by number
RunCheck(st, c) ==
    IF c = 1 THEN CheckGDP(st) ELSE IF c = 2 THEN CheckDeficit(st) ELSE CheckSigns(st)

\* the checks run in the order given, from an empty issue list
RunChecks(df, order) ==
    RunCheck(RunCheck(RunCheck([df |-> df, issues |-> <<>>], order[1]), order[2]), order[3])

\* validate_economic_relationships(df): the returned [df, issues]
validate_economic_relationships(df) == RunChecks(df, <<1, 2, 3>>)

(* -------------------------- derived variables ------------------------- *)
\* Series.pct_change(periods=p): gaps are padded forward first (the default
\* fill_method), then x[i] / x[i-p] - 1; the first p rows are NaN
pct_change(s, p) ==
    LET f == ffill(s)
    IN  [i \in 1..Len(s) |->
            IF i <= p THEN NaN ELSE FSub(FDiv(f[i], f[i - p]), Int2Num(1))]

RECURSIVE CumProdTo(_, _)
\* the product of the non-missing cells of s[1..i]
CumProdTo(s, i) ==
    IF i = 0 THEN Int2Num(1)
    ELSE IF IsNa(s[i]) THEN CumProdTo(s, i - 1)
    ELSE FMul(CumProdTo(s, i - 1), s[i])

\* Series.cumprod(): NaN where the cell is missing, which the running
\* product skips
cumprod(s) == [i \in 1..Len(s) |-> IF IsNa(s[i]) THEN NaN ELSE CumProdTo(s, i)]

base_index == 100

Times100(s) == [i \in 1..Len(s) |-> FMul(s[i], Int2Num(100))]

\* df[a] / df[b], row by row
ColDiv(df, a, b) == [i \in 1..Len(df.rows) |-> FDiv(df.rows[i][a], df.rows[i][b])]

\* lines 198-199
AddGrowth(df) ==
    IF HasCol(df, "GDP") /\ Len(df.rows) > 12
    THEN SetCol(df, "GDP_Growth_Rate", Times100(pct_change(Col(df, "GDP"), 12)), "number")
    ELSE df

\* lines 202-203
AddFiscalRatio(df) ==
    IF HasAll(df, {"Fiscal_Deficit", "GDP"})
    THEN SetCol(df, "Fiscal_Balance_GDP_Ratio",
                Times100(ColDiv(df, "Fiscal_Deficit", "GDP")), "number")
    ELSE df

\* lines 206-207
AddSpendingRatio(df) ==
    IF HasAll(df, {"Government_Spending", "GDP"})
    THEN SetCol(df, "Gov_Spending_GDP_Ratio",
                Times100(ColDiv(df, "Government_Spending", "GDP")), "number")
    ELSE df

\* a price index that is 100 at row 0 and compounds from row 1 on
PriceIndex_FromBase(rates) ==
    LET factor == [i \in 1..Len(rates) |->
                      IF i = 1 THEN Int2Num(1)
                      ELSE FAdd(Int2Num(1), FDiv(rates[i], Int2Num(100)))]
        cp == cumprod(factor)
    IN  [i \in 1..Len(rates) |-> FMul(Int2Num(base_index), cp[i])]

\* base_index * (1 + df['Inflation_Rate']/100).cumprod()
PriceIndex(rates) ==
    LET factor == [i \in 1..Len(rates) |->
                      FAdd(Int2Num(1), FDiv(rates[i], Int2Num(100)))]
        cp == cumprod(factor)
    IN  [i \in 1..Len(rates) |-> FMul(Int2Num(base_index), cp[i])]

\* lines 210-214
AddRealGDP(df) ==
    IF HasAll(df, {"GDP", "Inflation_Rate"})
    THEN LET df1 == SetCol(df, "Price_Index", PriceIndex(Col(df, "Inflation_Rate")), "number")
             real == [i \in 1..Len(df1.rows) |->
                         FDiv(df1.rows[i]["GDP"],
                              FDiv(df1.rows[i]["Price_Index"], Int2Num(base_index)))]
         IN  SetCol(df1, "Real_GDP", real, "number")
    ELSE df

\* add_derived_variables(df)
add_derived_variables(df) == AddRealGDP(AddSpendingRatio(AddFiscalRatio(AddGrowth(df))))

(* ------------------------------- summary ------------------------------ *)
\* the least (greatest when hi) timestamp of s, NaT when s is empty
DateExtreme(s, hi) ==
    IF s = <<>> THEN NaT
    ELSE CHOOSE x \in Range(s) :
            \A y \in Range(s) : IF hi THEN DateLe(y, x) ELSE DateLe(x, y)

\* generate_summary_statistics(df): of describe() the count and mean rows
\* are kept, with the shape and the date range that are logged
generate_summary_statistics(df) ==
    [count    |-> [c \in NumericCols(df) |-> Len(Valid(Col(df, c)))],
     mean     |-> [c \in NumericCols(df) |-> mean(Col(df, c))],
     shape    |-> <<Len(df.rows), Len(df.cols)>>,
     date_min |-> DateExtreme(Col(df, "Date"), FALSE),
     date_max |-> DateExtreme(Col(df, "Date"), TRUE)]

(* ------------------------------ raw files ----------------------------- *)
\* cells of a CSV file: a numeral, other text, or nothing
Txt(n) == [k |-> "str", n |-> n, d |-> 1]

Junk == [k |-> "junk", n |-> 0, d |-> 1]

DTxt(y, m, d) == [k |-> "dstr", y |-> y, m |-> m, d |-> d]

DJunk == [k |-> "junk", y |-> 0, m |-> 0, d |-> 0]

Absent == [kind |-> "absent", cols |-> <<>>, rows |-> <<>>]

Unparseable == [kind |-> "garbage", cols |-> <<>>, rows |-> <<>>]

Csv(cols, rows) == [kind |-> "csv", cols |-> cols, rows |-> rows]

\* pd.read_csv(filepath): a missing file raises FileNotFoundError, a file
\* that is no CSV raises a parser error; a column of numerals and empty
\* cells is read as numbers, any other column is kept as text (object)
read_csv(file) ==
    IF file.kind = "absent" THEN [exc |-> "FileNotFoundError", df |-> <<>>]
    ELSE IF file.kind = "garbage" THEN [exc |-> "ParserError", df |-> <<>>]
    ELSE LET n == Len(file.rows)
             isnum == [c \in Range(file.cols) |->
                          n > 0 /\ \A i \in 1..n : file.rows[i][c].k \in {"str", "nan"}]
         IN  [exc |-> "none",
              df  |-> <<[cols  |-> file.cols,
                         dtype |-> [c \in Range(file.cols) |->
                                       IF isnum[c] THEN "number" ELSE "object"],
                         index |-> RangeIndex(n),
                         rows  |-> [i \in 1..n |->
                                      [c \in Range(file.cols) |->
                                          IF isnum[c] THEN to_numeric(file.rows[i][c])
                                          ELSE file.rows[i][c]]]]>>]

\* load_raw_data with the FileNotFoundError clause only
load_raw_data_NoCatchAll(file) ==
    LET r == read_csv(file)
    IN  [df     |-> r.df,
         raised |-> r.exc = "ParserError",
         log    |-> IF r.exc = "none"
                    THEN <<[level |-> "info", msg |-> "loaded", col |-> "", n |-> Len(r.df[1].rows)]>>
                    ELSE IF r.exc = "FileNotFoundError"
                    THEN <<[level |-> "error", msg |-> "file not found", col |-> "", n |-> 0]>>
                    ELSE <<>>]

\* load_raw_data(filename): both except clauses return None; df is <<>> for
\* None and <<table>> for a table, raised tells whether an exception escapes
load_raw_data(file) ==
    LET r == read_csv(file)
    IN  [df     |-> r.df,
         raised |-> FALSE,
         log    |-> IF r.exc = "none"
                    THEN <<[level |-> "info", msg |-> "loaded", col |-> "", n |-> Len(r.df[1].rows)]>>
                    ELSE IF r.exc = "FileNotFoundError"
                    THEN <<[level |-> "error", msg |-> "file not found", col |-> "", n |-> 0]>>
                    ELSE <<[level |-> "error", msg |-> "error loading", col |-> "", n |-> 0]>>]

\* --- the bounded families of input files ---
DateCells == {DTxt(2020, 3, 1), DTxt(2019, 12, 31), DTxt(2020, 2, 30), DJunk}

\* a Date column and a GDP column that numbers the rows
DateFam ==
    {Csv(<<"Date", "GDP">>,
         [i \in 1..Len(ds) |-> [c \in {"Date", "GDP"} |->
                                   IF c = "Date" THEN ds[i] ELSE Txt(10 * i)]])
       : ds \in SeqsUpTo(DateCells, MaxDateRows)}

GapCells == {NaN, Txt(100), Txt(-50)}

\* no Date column; gaps in Inflation_Rate
GapFam ==
    {Csv(<<"GDP", "Inflation_Rate">>,
         [i \in 1..Len(rs) |-> [c \in {"GDP", "Inflation_Rate"} |->
                                   IF c = "GDP" THEN Txt(100) ELSE rs[i]]])
       : rs \in SeqsUpTo(GapCells, MaxGapRows)}

IdentCols ==
    <<"GDP", "Consumption", "Investment", "Government_Spending", "Net_Exports",
      "Government_Revenue", "Expenditure", "Fiscal_Deficit">>

IdentRow(cells) == [c \in Range(IdentCols) |->
                       cells[CHOOSE i \in 1..Len(IdentCols) : IdentCols[i] = c]]

IdentRows ==
    {IdentRow(<<Txt(1000), Txt(600), Txt(200), Txt(150), Txt(50), Txt(300), Txt(400), Txt(100)>>),
     IdentRow(<<Txt(1000), Txt(600), Txt(200), Txt(150), Txt(100), Txt(300), Txt(400), Txt(104)>>),
     IdentRow(<<Txt(1000), Txt(600), Txt(200), Txt(150), Txt(101), Txt(300), Txt(400), Txt(105)>>),
     IdentRow(<<Txt(1000), Txt(700), Txt(200), Txt(200), Txt(100), Txt(300), Txt(400), Txt(100)>>),
     IdentRow(<<Txt(-1000), Txt(-600), Txt(-200), Txt(-150), Txt(-50), Txt(-300), Txt(-400), Txt(-100)>>),
     IdentRow(<<Txt(1000), Junk, Txt(200), Txt(150), Txt(50), Txt(300), Txt(400), NaN>>),
     IdentRow(<<Txt(0), Txt(0), Txt(0), Txt(0), Txt(1), Txt(0), Txt(0), Txt(0)>>)}

\* no Date column; the columns of the two identities
IdentFam == {Csv(IdentCols, rs) : rs \in SeqsUpTo(IdentRows, MaxIdentRows) \ {<<>>}}

LongCells == {Txt(100), Txt(1000), Junk, NaN}

\* LongRows rows of GDP = 100, but for one cell
LongFam ==
    {Csv(<<"GDP">>, [i \in 1..LongRows |-> [c \in {"GDP"} |-> IF i = p THEN x ELSE Txt(100)]])
       : p \in 1..LongRows, x \in LongCells}

Files == {Absent, Unparseable} \cup DateFam \cup GapFam \cup IdentFam \cup LongFam

Methods == KnownMethods \cup {"bogus_method"}

\* --- the files of the driver's runs ---
\* rows of the files the driver of main() finds
MaxMainRows == 1

MainDateCells == {DTxt(2020, 3, 1), DJunk}

MainFiles ==
    {Absent, Unparseable} \cup
    {Csv(<<"Date", "GDP">>,
         [i \in 1..Len(ds) |-> [c \in {"Date", "GDP"} |->
                                   IF c = "Date" THEN ds[i] ELSE Txt(10 * i)]])
       : ds \in SeqsUpTo(MainDateCells, MaxMainRows)}

\* main(), lines 293-297
datasets_to_process == <<"economic_data.csv", "quarterly_gdp.csv", "fiscal_indicators.csv">>

(* ---------------------------- state machine --------------------------- *)
VARIABLES
    fs,                  \* the raw data directory: file name -> file
    exported,            \* the processed data directory: file name -> table
    arg,                 \* the arguments of the running process_dataset call
    pc,                  \* the position in process_dataset, or in main
    df,                  \* process_dataset's df: <<>> for None, else <<table>>
    validation_issues,   \* process_dataset's validation_issues
    summary,             \* process_dataset's summary: <<>> or <<summary>>
    ret,                 \* what the last process_dataset call returned
    next_dataset,        \* main's position in datasets_to_process (0: no driver)
    processed_datasets,  \* main's result map
    log,                 \* the messages logged so far
    trace,               \* per stage run in the current call: its name and result
    calls                \* the file names process_dataset was called with

vars == <<fs, exported, arg, pc, df, validation_issues, summary, ret, next_dataset,
          processed_datasets, log, trace, calls>>

Msg(level, msg, n) == [level |-> level, msg |-> msg, col |-> "", n |-> n]

\* f"processed_{input_filename}", lines 256-257
DefaultOutput(input_filename) == <<"processed_", input_filename>>

Ran(stage, table) == Append(trace, [stage |-> stage, df |-> table])

\* lines 261-264
LoadRawData ==
    /\ pc = "load"
    /\ LET r == load_raw_data(fs[arg.input_filename])
       IN  /\ log' = log \o r.log
           /\ trace' = Ran("load_raw_data", r.df)
           /\ df' = r.df
           /\ IF r.raised THEN pc' = "raised" /\ ret' = ret
              ELSE IF r.df = <<>> THEN pc' = "returned" /\ ret' = <<>>
              ELSE pc' = "clean_date" /\ ret' = ret
    /\ UNCHANGED <<fs, exported, arg, validation_issues, summary, next_dataset,
                   processed_datasets, calls>>

\* line 267
CleanDate ==
    /\ pc = "clean_date"
    /\ \E t \in clean_date_column(df[1]) :
          /\ df' = <<t>>
          /\ trace' = Ran("clean_date_column", <<t>>)
          /\ log' = IF ~HasCol(df[1], "Date")
                    THEN Append(log, Msg("warning", "creating dummy dates", 0))
                    ELSE IF Len(t.rows) < Len(df[1].rows)
                    THEN Append(log, Msg("warning", "removing rows with invalid dates",
                                         Len(df[1].rows) - Len(t.rows)))
                    ELSE log
    /\ pc' = "clean_numeric"
    /\ UNCHANGED <<fs, exported, arg, validation_issues, summary, ret, next_dataset,
                   processed_datasets, calls>>

\* line 268
CleanNumeric ==
    /\ pc = "clean_numeric"
    /\ LET r == clean_numeric_columns(df[1])
       IN  /\ df' = <<r.df>>
           /\ trace' = Ran("clean_numeric_columns", <<r.df>>)
           /\ log' = log \o r.log
    /\ pc' = "handle_missing"
    /\ UNCHANGED <<fs, exported, arg, validation_issues, summary, ret, next_dataset,
                   processed_datasets, calls>>

\* line 269
HandleMissing ==
    /\ pc = "handle_missing"
    /\ LET t == handle_missing_values(df[1], arg.missing_value_method)
       IN  /\ df' = <<t>>
           /\ trace' = Ran("handle_missing_values", <<t>>)
    /\ log' = IF arg.missing_value_method \in KnownMethods THEN log
              ELSE Append(log, Msg("warning", "unknown method", 0))
    /\ pc' = "validate"
    /\ UNCHANGED <<fs, exported, arg, validation_issues, summary, ret, next_dataset,
                   processed_datasets, calls>>

\* line 272
Validate ==
    /\ pc = "validate"
    /\ LET r == validate_economic_relationships(df[1])
       IN  /\ df' = <<r.df>>
           /\ validation_issues' = r.issues
           /\ trace' = Ran("validate_economic_relationships", <<r.df>>)
           /\ log' = IF r.issues # <<>>
                     THEN Append(log, Msg("warning", "validation issues found", Len(r.issues)))
                     ELSE Append(log, Msg("info", "validated successfully", 0))
    /\ pc' = "derive"
    /\ UNCHANGED <<fs, exported, arg, summary, ret, next_dataset, processed_datasets, calls>>

\* line 273
AddDerived ==
    /\ pc = "derive"
    /\ LET t == add_derived_variables(df[1])
       IN  /\ df' = <<t>>
           /\ trace' = Ran("add_derived_variables", <<t>>)
    /\ pc' = "summary"
    /\ UNCHANGED <<fs, exported, arg, validation_issues, summary, ret, next_dataset,
                   processed_datasets, log, calls>>

\* line 276
Summary ==
    /\ pc = "summary"
    /\ summary' = <<generate_summary_statistics(df[1])>>
    /\ trace' = Ran("generate_summary_statistics", df)
    /\ pc' = "export"
    /\ UNCHANGED <<fs, exported, arg, df, validation_issues, ret, next_dataset,
                   processed_datasets, log, calls>>

\* lines 278-284: export_processed_data succeeds or fails (to_csv raises and
\* the exception is caught); df is returned either way
ExportAndReturn ==
    /\ pc = "export"
    /\ \E ok \in BOOLEAN :
          /\ exported' = IF ok THEN (arg.output_filename :> df[1]) @@ exported ELSE exported
          /\ log' = IF ok THEN Append(log, Msg("info", "preprocessing completed", 0))
                    ELSE Append(log, Msg("error", "failed to export", 0))
    /\ trace' = Ran("export_processed_data", df)
    /\ ret' = df
    /\ pc' = "returned"
    /\ UNCHANGED <<fs, arg, df, validation_issues, summary, next_dataset, processed_datasets, calls>>

\* main, line 306: the call of process_dataset(dataset)
MainCall ==
    /\ pc = "main"
    /\ next_dataset <= Len(datasets_to_process)
    /\ arg' = [input_filename |-> datasets_to_process[next_dataset],
               output_filename |-> DefaultOutput(datasets_to_process[next_dataset]),
               missing_value_method |-> "interpolate"]
    /\ calls' = Append(calls, datasets_to_process[next_dataset])
    /\ trace' = <<>>
    /\ df' = <<>>
    /\ validation_issues' = <<>>
    /\ summary' = <<>>
    /\ pc' = "load"
    /\ UNCHANGED <<fs, exported, ret, next_dataset, processed_datasets, log>>

\* main, lines 306-308: the call returns and the result is stored
MainStore ==
    /\ pc = "returned"
    /\ next_dataset >= 1
    /\ processed_datasets' =
          IF ret # <<>> THEN (datasets_to_process[next_dataset] :> ret[1]) @@ processed_datasets
          ELSE processed_datasets
    /\ next_dataset' = next_dataset + 1
    /\ pc' = "main"
    /\ UNCHANGED <<fs, exported, arg, df, validation_issues, summary, ret, log,
                   trace, calls>>

\* main, line 310: the loop is over
MainFinish ==
    /\ pc = "main"
    /\ next_dataset > Len(datasets_to_process)
    /\ log' = Append(log, Msg("info", "processed datasets", Cardinality(DOMAIN processed_datasets)))
    /\ pc' = "done"
    /\ UNCHANGED <<fs, exported, arg, df, validation_issues, summary, ret, next_dataset,
                   processed_datasets, trace, calls>>

Stage ==
    \/ LoadRawData
    \/ CleanDate
    \/ CleanNumeric
    \/ HandleMissing
    \/ Validate
    \/ AddDerived
    \/ Summary
    \/ ExportAndReturn

\* a call process_dataset("input.csv", None, method) on any file, any method
Init ==
    /\ fs \in [{"input.csv"} -> Files]
    /\ exported = <<>>
    /\ arg \in [input_filename : {"input.csv"},
                output_filename : {DefaultOutput("input.csv")},
                missing_value_method : Methods]
    /\ pc = "load"
    /\ df = <<>>
    /\ validation_issues = <<>>
    /\ summary = <<>>
    /\ ret = <<>>
    /\ next_dataset = 0
    /\ processed_datasets = <<>>
    /\ log = <<>>
    /\ trace = <<>>
    /\ calls = <<"input.csv">>

Next == Stage

Spec == Init /\ [][Next]_vars

\* a run of main() over any raw data directory
InitMain ==
    /\ fs \in [Range(datasets_to_process) -> MainFiles]
    /\ exported = <<>>
    /\ arg = [input_filename |-> "", output_filename |-> <<>>, missing_value_method |-> ""]
    /\ pc = "main"
    /\ df = <<>>
    /\ validation_issues = <<>>
    /\ summary = <<>>
    /\ ret = <<>>
    /\ next_dataset = 1
    /\ processed_datasets = <<>>
    /\ log = <<>>
    /\ trace = <<>>
    /\ calls = <<>>

NextMain == Stage \/ MainCall \/ MainStore \/ MainFinish

SpecMain == InitMain /\ [][NextMain]_vars

(* ------------------------------- claims ------------------------------- *)
\* the stage has run in the current call
Done(stage) == \E k \in 1..Len(trace) : trace[k].stage = stage

StagePos(stage) == CHOOSE k \in 1..Len(trace) : trace[k].stage = stage

\* the table the stage was given and the table it returned
In(stage) == trace[StagePos(stage) - 1].df[1]

Out(stage) == trace[StagePos(stage)].df[1]

\* how often the row r occurs in the rows s
Occurrences(s, r) == Cardinality({k \in 1..Len(s) : s[k] = r})

\* the rows of t with their dates parsed
ParsedRows(t) ==
    [k \in 1..Len(t.rows) |->
        [c \in Range(t.cols) |->
            IF c = "Date" THEN to_datetime(t.rows[k][c]) ELSE t.rows[k][c]]]

NoMissingDate(t) == \A k \in 1..Len(t.rows) : t.rows[k]["Date"].k = "date"

DatesAscending(t) ==
    \A k \in 1..(Len(t.rows) - 1) : DateLe(t.rows[k]["Date"], t.rows[k + 1]["Date"])

\* C1: for a table with a Date column, clean_date_column returns exactly the
\* rows whose date parsed (as many as the input has minus the unparseable
\* ones), none with a missing date, dates non-decreasing in row order, and
\* the index renumbered 0..n-1.
C1_DateNormalizer ==
    (Done("clean_date_column") /\ HasCol(In("clean_date_column"), "Date")) =>
        LET inp  == In("clean_date_column")
            out  == Out("clean_date_column")
            all  == ParsedRows(inp)
            bad  == {k \in 1..Len(all) : all[k]["Date"].k # "date"}
        IN  /\ Len(out.rows) = Len(inp.rows) - Cardinality(bad)
            /\ \A k \in 1..Len(all) :
                  Occurrences(out.rows, all[k]) =
                      IF k \in bad THEN 0 ELSE Occurrences(all, all[k])
            /\ \A k \in 1..Len(out.rows) : \E j \in 1..Len(all) : out.rows[k] = all[j]
            /\ NoMissingDate(out)
            /\ DatesAscending(out)
            /\ out.index = RangeIndex(Len(out.rows))

\* a row was dropped and the two rows kept had to be swapped
C1_Witness ==
    /\ Done("clean_date_column")
    /\ HasCol(In("clean_date_column"), "Date")
    /\ Len(In("clean_date_column").rows) = 3
    /\ Len(Out("clean_date_column").rows) = 2
    /\ Out("clean_date_column").rows[1]["GDP"] = Int2Num(30)
    /\ Out("clean_date_column").rows[2]["GDP"] = Int2Num(10)

\* the first day of the k-th month counted from January 2020 (k from 0)
MonthStart(k) == Timestamp(2020 + (k \div 12), (k % 12) + 1, 1)

\* C2: without a date column the table gets len(df) monthly dates starting
\* at 2020-01-01, one month apart, one per row in row order (row 0 gets
\* 2020-01-01).
C2_DummyDatesFromEpoch ==
    (Done("clean_date_column") /\ ~HasCol(In("clean_date_column"), "Date")) =>
        LET inp == In("clean_date_column")
            out == Out("clean_date_column")
        IN  /\ Len(out.rows) = Len(inp.rows)
            /\ \A k \in 1..Len(out.rows) :
                  /\ out.rows[k]["Date"] = MonthStart(k - 1)
                  /\ \A c \in Range(inp.cols) : out.rows[k][c] = inp.rows[k][c]

\* the file of the call could not be loaded
LoadFailed(name) == read_csv(fs[name]).exc # "none"

HasBefore(s, k) == \E j \in 1..(k - 1) : ~IsNa(s[j])

HasAfter(s, k) == \E j \in (k + 1)..Len(s) : ~IsNa(s[j])

\* x lies on the line through (p, s[p]) and (q, s[q]) at position k
OnLine(s, p, q, k, x) ==
    /\ x.k = "num"
    /\ FMul(FSub(x, s[p]), Int2Num(q - p)) = FMul(FSub(s[q], s[p]), Int2Num(k - p))

\* a gap with a value on both sides gets the value on the line between
\* its nearest neighbours
InteriorInterpolated(s, t) ==
    \A k \in Gaps(s) :
        (HasBefore(s, k) /\ HasAfter(s, k)) =>
            \E p \in 1..(k - 1), q \in (k + 1)..Len(s) :
                /\ ~IsNa(s[p]) /\ ~IsNa(s[q])
                /\ \A j \in (p + 1)..(q - 1) : IsNa(s[j])
                /\ OnLine(s, p, q, k, t[k])

Interpolating == arg.missing_value_method = "interpolate"

\* C4 as stated: under method='interpolate' a gap with a value on both
\* sides is interpolated linearly by row position, and a gap not bounded on
\* both sides (leading or trailing) remains missing.
C4_BoundaryGapsRemain ==
    (Done("handle_missing_values") /\ Interpolating) =>
        \A c \in NumericCols(In("handle_missing_values")) :
            LET s == Col(In("handle_missing_values"), c)
                t == Col(Out("handle_missing_values"), c)
            IN  /\ InteriorInterpolated(s, t)
                /\ \A k \in Gaps(s) :
                      ~(HasBefore(s, k) /\ HasAfter(s, k)) => IsNa(t[k])

\* C4 amended: under method='interpolate' a gap with a value on both sides
\* is interpolated linearly by row position, a leading gap remains missing,
\* and a trailing gap takes the last non-missing value.
C4_Interpolate ==
    (Done("handle_missing_values") /\ Interpolating) =>
        \A c \in NumericCols(In("handle_missing_values")) :
            LET s == Col(In("handle_missing_values"), c)
                t == Col(Out("handle_missing_values"), c)
            IN  /\ InteriorInterpolated(s, t)
                /\ \A k \in 1..Len(s) : ~IsNa(s[k]) => t[k] = s[k]
                /\ \A k \in Gaps(s) :
                      /\ ~HasBefore(s, k) => IsNa(t[k])
                      /\ (HasBefore(s, k) /\ ~HasAfter(s, k)) =>
                            \E p \in 1..(k - 1) :
                                /\ ~IsNa(s[p])
                                /\ \A j \in (p + 1)..Len(s) : IsNa(s[j])
                                /\ t[k] = s[p]

\* interpolation ran on 100, gap, gap, -50, gap: an interior gap of two
\* rows and a trailing gap
C4_Witness ==
    /\ Done("handle_missing_values")
    /\ Interpolating
    /\ HasCol(In("handle_missing_values"), "Inflation_Rate")
    /\ LET s == Col(In("handle_missing_values"), "Inflation_Rate")
       IN  /\ Len(s) = 5
           /\ s[1] = Int2Num(100) /\ IsNa(s[2]) /\ IsNa(s[3])
           /\ s[4] = Int2Num(-50) /\ IsNa(s[5])

\* C5: with mean or median no missing value remains in a numeric column
\* that had a value; with forward fill a column whose first value is missing
\* keeps it missing, with backward fill a column whose last value is missing
\* keeps it missing; the row count never changes.
C5_ImputerPostcondition ==
    Done("handle_missing_values") =>
        LET inp == In("handle_missing_values")
            out == Out("handle_missing_values")
            m   == arg.missing_value_method
        IN  /\ Len(out.rows) = Len(inp.rows)
            /\ \A c \in NumericCols(inp) :
                  LET s == Col(inp, c)
                      t == Col(out, c)
                  IN  /\ (m \in {"mean", "median"} /\ Gaps(s) # 1..Len(s)) => Gaps(t) = {}
                      /\ (m = "forward_fill" /\ Len(s) > 0 /\ IsNa(s[1])) => IsNa(t[1])
                      /\ (m = "backward_fill" /\ Len(s) > 0 /\ IsNa(s[Len(s)]))
                            => IsNa(t[Len(s)])

\* the mean filled a leading, an interior and a trailing gap
C5_Witness ==
    /\ Done("handle_missing_values")
    /\ arg.missing_value_method = "mean"
    /\ HasCol(In("handle_missing_values"), "Inflation_Rate")
    /\ LET s == Col(In("handle_missing_values"), "Inflation_Rate")
       IN  /\ Len(s) = 5
           /\ IsNa(s[1]) /\ ~IsNa(s[2]) /\ IsNa(s[3]) /\ ~IsNa(s[4]) /\ IsNa(s[5])

\* the orders in which the three checks can run
CheckOrders ==
    {<<1, 2, 3>>, <<1, 3, 2>>, <<2, 1, 3>>, <<2, 3, 1>>, <<3, 1, 2>>, <<3, 2, 1>>}

\* C6: validate_economic_relationships returns its input table unchanged,
\* cell for cell, and its three checks yield the same set of issues in
\* whatever order they run.
C6_ValidatorPure ==
    Done("validate_economic_relationships") =>
        LET inp == In("validate_economic_relationships")
        IN  /\ Out("validate_economic_relationships") = inp
            /\ \A o \in CheckOrders :
                  /\ RunChecks(inp, o).df = inp
                  /\ Range(RunChecks(inp, o).issues) = Range(validation_issues)

\* all three checks reported something
C6_Witness ==
    /\ Done("validate_economic_relationships")
    /\ \A kind \in {"gdp_identity", "fiscal_deficit", "negative"} :
          \E k \in 1..Len(validation_issues) : validation_issues[k].kind = kind

GdpCols == {"GDP", "Consumption", "Investment", "Government_Spending", "Net_Exports"}

\* the rows of t with |GDP - components| > 5% of |GDP|, tested on integers
\* scaled by 20: 20 * |GDP - sum| > |GDP|
GdpOff(t) ==
    {k \in 1..Len(t.rows) :
        LET r == t.rows[k]
            total == FAdd(FAdd(r["Consumption"], r["Investment"]),
                          FAdd(r["Government_Spending"], r["Net_Exports"]))
        IN  /\ r["GDP"].k = "num" /\ total.k = "num"
            /\ FGt(FMul(Int2Num(20), FAbs(FSub(r["GDP"], total))), FAbs(r["GDP"]))}

GdpIssues == SelectSeq(validation_issues, LAMBDA x : x.kind = "gdp_identity")

\* C7: with GDP and its four components present, a row is inconsistent
\* exactly when |GDP - sum| > 0.05 * |GDP| (strictly); there is one GDP issue,
\* carrying the number of inconsistent rows, when a row is inconsistent and
\* none otherwise.
C7_GdpIdentity ==
    Done("validate_economic_relationships") =>
        LET inp == In("validate_economic_relationships")
        IN  IF HasAll(inp, GdpCols) /\ GdpOff(inp) # {}
            THEN /\ Len(GdpIssues) = 1
                 /\ GdpIssues[1].count = Cardinality(GdpOff(inp))
            ELSE GdpIssues = <<>>

\* one row is off by 20% and the other by exactly 5%: one issue, count 1
C7_Witness ==
    /\ Done("validate_economic_relationships")
    /\ HasAll(In("validate_economic_relationships"), GdpCols)
    /\ LET t == In("validate_economic_relationships")
       IN  /\ Len(t.rows) = 2
           /\ t.rows[1]["GDP"] = Int2Num(1000) /\ t.rows[1]["Net_Exports"] = Int2Num(100)
           /\ t.rows[1]["Consumption"] = Int2Num(600)
           /\ t.rows[2]["GDP"] = Int2Num(1000) /\ t.rows[2]["Consumption"] = Int2Num(700)
    /\ Len(GdpIssues) = 1
    /\ GdpIssues[1].count = 1

Registry == Range(numeric_columns)

\* C8: clean_numeric_columns removes no row and changes no value that is
\* already numeric, flagged outliers included; all it changes is text in
\* registry columns, which becomes the number it spells or else missing;
\* applied to its own output it returns that output unchanged.
C8_SanitizerDetectOnly ==
    Done("clean_numeric_columns") =>
        LET inp == In("clean_numeric_columns")
            out == Out("clean_numeric_columns")
        IN  /\ Len(out.rows) = Len(inp.rows)
            /\ out.index = inp.index
            /\ out.cols = inp.cols
            /\ \A k \in 1..Len(inp.rows) : \A c \in Range(inp.cols) :
                  LET x == inp.rows[k][c]
                      y == out.rows[k][c]
                  IN  /\ (c \notin Registry \/ x.k \in {"num", "nan"}) => y = x
                      /\ (c \in Registry /\ x.k = "junk") => y = NaN
                      /\ (c \in Registry /\ x.k = "str") => y = [x EXCEPT !.k = "num"]
            /\ clean_numeric_columns(out).df = out

\* an outlier was flagged, and it is still in the table
C8_Witness ==
    /\ Done("clean_numeric_columns")
    /\ \E k \in 1..Len(log) : log[k].msg = "potential outliers detected" /\ log[k].n = 1
    /\ \E k \in 1..Len(Out("clean_numeric_columns").rows) :
          Out("clean_numeric_columns").rows[k]["GDP"] = Int2Num(1000)

RECURSIVE Compound(_, _)
\* 100 * (1 + s[1]/100) * ... * (1 + s[k]/100)
Compound(s, k) ==
    IF k = 0 THEN Int2Num(100)
    ELSE FDiv(FMul(Compound(s, k - 1), FAdd(Int2Num(100), s[k])), Int2Num(100))

\* C9: with GDP and Inflation_Rate present, Price_Index is
\* 100 * (1 + Inflation_Rate[0]/100) at row 0 and the cumulative product of
\* (1 + Inflation_Rate/100) times 100 at each later row; so it is
\* non-decreasing whenever every Inflation_Rate is >= 0.
C9_PriceIndex ==
    (Done("add_derived_variables")
       /\ HasAll(In("add_derived_variables"), {"GDP", "Inflation_Rate"})) =>
        LET rates == Col(In("add_derived_variables"), "Inflation_Rate")
            out   == Out("add_derived_variables")
        IN  /\ HasCol(out, "Price_Index")
            /\ \A k \in 1..Len(rates) :
                  (\A j \in 1..k : rates[j].k = "num") =>
                      out.rows[k]["Price_Index"] = Compound(rates, k)
            /\ (\A k \in 1..Len(rates) : rates[k].k = "num" /\ rates[k].n >= 0) =>
                  \A k \in 1..(Len(rates) - 1) :
                      ~FGt(out.rows[k]["Price_Index"], out.rows[k + 1]["Price_Index"])

\* three rows of 100% inflation: the index is 200, 400, 800
C9_Witness ==
    /\ Done("add_derived_variables")
    /\ HasAll(In("add_derived_variables"), {"GDP", "Inflation_Rate"})
    /\ Len(Out("add_derived_variables").rows) = 3
    /\ \A k \in 1..3 : In("add_derived_variables").rows[k]["Inflation_Rate"] = Int2Num(100)
    /\ Out("add_derived_variables").rows[1]["Price_Index"] = Int2Num(200)
    /\ Out("add_derived_variables").rows[3]["Price_Index"] = Int2Num(800)

\* process_dataset, lines 262-279: the stages in call order
Pipeline ==
    <<"load_raw_data", "clean_date_column", "clean_numeric_columns",
      "handle_missing_values", "validate_economic_relationships",
      "add_derived_variables", "generate_summary_statistics", "export_processed_data">>

\* the stage at position k of the trace kept the rows: as many, with the
\* same labels and dates, and every value of the stage's input still there
KeepsRows(k) ==
    LET a == trace[k - 1].df[1]
        b == trace[k].df[1]
    IN  /\ Len(b.rows) = Len(a.rows)
        /\ b.index = a.index
        /\ \A j \in 1..Len(a.rows) : \A c \in Range(a.cols) :
              (~IsNa(a.rows[j][c]) /\ a.rows[j][c].k # "junk") =>
                  to_numeric(b.rows[j][c]) = to_numeric(a.rows[j][c])

\* C10: for a loaded table the stages run in the fixed order and none
\* after the date normalizer removes, adds or reorders rows: the table
\* process_dataset returns has the rows clean_date_column returned, in that
\* order, no date missing and dates non-decreasing, for any strategy and
\* whether or not the export succeeded.
C10_RowsSurvivePipeline ==
    /\ (pc # "load" /\ df # <<>>) =>
          /\ \A k \in 1..Len(trace) : trace[k].stage = Pipeline[k]
          /\ \A k \in 3..Len(trace) : KeepsRows(k)
    /\ (pc = "returned" /\ ~LoadFailed(arg.input_filename)) =>
          /\ ret # <<>>
          /\ Len(trace) = Len(Pipeline)
          /\ Col(ret[1], "Date") = Col(Out("clean_date_column"), "Date")
          /\ ret[1].index = Out("clean_date_column").index
          /\ NoMissingDate(ret[1])
          /\ DatesAscending(ret[1])

\* the call returned two rows out of three after a failed export, the
\* strategy being the median
C10_Witness ==
    /\ pc = "returned"
    /\ ret # <<>>
    /\ arg.missing_value_method = "median"
    /\ exported = <<>>
    /\ Len(trace[1].df[1].rows) = 3
    /\ Len(ret[1].rows) = 2
    /\ ret[1].rows[1]["GDP"] = Int2Num(30)

====
